---- MODULE Spec2Model ----
(***************************************************************************)
(* SmartPlaceholder (src/src/index.tsx): one component instance, its       *)
(* Animated.Value, the loop its effect starts and stops, and the tree each *)
(* render strategy produces.                                               *)
(*                                                                         *)
(* Numbers.  The animated value lies in [0,1]; it is kept as an integer in *)
(* 0..Scale.  Lengths are kept in tenths of a unit (so that 0.3*width is   *)
(* an integer), and every interpolated output is kept multiplied by Scale  *)
(* (so that no division rounds it).                                        *)
(*                                                                         *)
(* React commits a render and the effects it schedules before it handles   *)
(* the next event of the instance; Mount, Rerender and Unmount are one     *)
(* step each, the effect's cleanup and body included.                      *)
(***************************************************************************)
EXTENDS Integers, Sequences, FiniteSets, TLC

VARIABLES
  mounted,        \* the instance is in the tree
  props,          \* the props of the last render, as the caller passed them
  deps,           \* animationStyle of the last effect run (the dependency array)
  animatedValue,  \* Animated.Value._value, in 0..Scale
  animation,      \* the Animated.loop(Animated.timing(..)) of the last effect run
  elapsed,        \* time since the running iteration of the timing started
  view,           \* the tree on screen, animated nodes at their last flushed value
  lastOp          \* history: the event handled last

vars ==
  <<mounted, props, deps, animatedValue, animation, elapsed, view, lastOp>>

\* Resolution of the animated value: 1.0 is Scale.
Scale == 1000

\* ------------------------------------------------------------------ inputs

Number(n) == [num |-> TRUE, v |-> n]
\* a width or height given as a string ("50%")
Percent(n) == [num |-> FALSE, v |-> n]

Hex(r, g, b, a) == [fmt |-> "hex", r |-> r, g |-> g, b |-> b, a |-> a]

Widths == {Number(200), Percent(50), Percent(80)}
Heights == {Number(40), Percent(30)}
BackgroundColors == {Hex(132, 133, 133, 44), Hex(225, 233, 238, 255)}
AnimationColors == {Hex(131, 132, 132, 120)}
BorderRadii == {4}

\* the style prop: undefined, or an object overriding borderRadius
NoStyle == [set |-> FALSE, borderRadius |-> 0]
StyleOverrides == {NoStyle, [set |-> TRUE, borderRadius |-> 9]}

KnownStyles ==
  {"linear", "radial", "directional", "reverse", "pulse", "fade", "skeleton"}
\* "wave" stands for a tag outside the union; "undefined" for an omitted prop
StyleInputs == KnownStyles \cup {"wave", "undefined"}

PropsInputs ==
  [width : Widths, height : Heights, backgroundColor : BackgroundColors,
   animationColor : AnimationColors, animationStyle : StyleInputs,
   borderRadius : BorderRadii, style : StyleOverrides]

\* time between two frames of the toolkit's scheduler
FrameIntervals == {300, 600}

\* ------------------------------------------------------------- the effect

\* the parameter default of the destructured props
DefaultAnimationStyle(given) == IF given = "undefined" THEN "fade" ELSE given

AnimationStyle(p) == DefaultAnimationStyle(p.animationStyle)

DurationFor(animationStyle) ==
  IF animationStyle = "pulse" \/ animationStyle = "fade" THEN 1500 ELSE 1200

\* a variant of EasingFor that gives every style the linear easing
EasingFor_AlwaysLinear(animationStyle) == "linear"

EasingFor(animationStyle) ==
  IF animationStyle = "pulse" THEN "ease" ELSE "linear"

NoAnimation == [active |-> FALSE, duration |-> 0, easing |-> "none"]

\* Easing.ease is the toolkit's cubic bezier (0.42, 0, 1, 1); its value at
\* t = 0/10 .. 10/10, in thousandths.
EaseTable == <<0, 17, 62, 130, 215, 315, 429, 555, 692, 839, 1000>>

\* easing(t / duration), in 0..Scale
Eased(easing, t, duration) ==
  IF easing = "ease"
    THEN (EaseTable[((t * 10) \div duration) + 1] * Scale) \div 1000
    ELSE (t * Scale) \div duration

\* a variant of EffectBody without the early return for "skeleton"
EffectBody_NoSkeletonReturn(animationStyle) ==
  [active |-> TRUE, duration |-> DurationFor(animationStyle),
   easing |-> EasingFor(animationStyle)]

\* the effect's body: what it leaves in animation
EffectBody(animationStyle) ==
  IF animationStyle = "skeleton"
    THEN NoAnimation
    ELSE [active |-> TRUE, duration |-> DurationFor(animationStyle),
          easing |-> EasingFor(animationStyle)]

\* a variant of EffectCleanup without animation.stop()
EffectCleanup_NoStop(anim, value) == [animation |-> anim, value |-> 0]

\* a variant of EffectCleanup without animatedValue.setValue(0)
EffectCleanup_NoReset(anim, value) ==
  [animation |-> [anim EXCEPT !.active = FALSE], value |-> value]

\* the function the effect returns: animation.stop(); animatedValue.setValue(0)
EffectCleanup(anim, value) ==
  [animation |-> [anim EXCEPT !.active = FALSE], value |-> 0]

\* a variant of DepsChanged for an effect without a dependency array
DepsChanged_EveryRender(old, new) == TRUE

\* React re-runs the effect when an entry of [animationStyle, animatedValue]
\* changed; animatedValue is the same ref for the life of the instance
DepsChanged(old, new) == old # new

\* the cleanup React calls before the next effect run or on unmount, when the
\* last effect run returned one (the skeleton branch returns none)
RunCleanup(anim, value) ==
  IF anim = NoAnimation
    THEN [animation |-> anim, value |-> value]
    ELSE EffectCleanup(anim, value)

\* ------------------------------------------------------------ interpolation

\* interpolate({inputRange: [0, 1], outputRange: [o0, o1]}), times Scale
Interpolate2(value, o0, o1) == o0 * Scale + value * (o1 - o0)

\* interpolate({inputRange: [0, 0.5, 1], outputRange: [o0, o1, o2]}), times
\* Scale; the segment is the first whose upper input bound is >= value
Interpolate3(value, o0, o1, o2) ==
  IF 2 * value <= Scale
    THEN o0 * Scale + 2 * value * (o1 - o0)
    ELSE o1 * Scale + (2 * value - Scale) * (o2 - o1)

\* Math.round of n / d, for n >= 0 and d > 0
RoundDiv(n, d) == (2 * n + d) \div (2 * d)

\* interpolation of a colour output range: each channel is interpolated, r, g
\* and b are rounded, alpha (a / 255) is rounded to thousandths, and the result
\* is the string rgba(r, g, b, alpha)
InterpolateColor(value, c0, c1, c2) ==
  [fmt |-> "rgba",
   r |-> RoundDiv(Interpolate3(value, c0.r, c1.r, c2.r), Scale),
   g |-> RoundDiv(Interpolate3(value, c0.g, c1.g, c2.g), Scale),
   b |-> RoundDiv(Interpolate3(value, c0.b, c1.b, c2.b), Scale),
   a |-> RoundDiv(Interpolate3(value, c0.a, c1.a, c2.a) * 1000, 255 * Scale)]

\* the colour a colour string denotes, 8 bits a channel
ProcessColor(c) ==
  IF c.fmt = "hex"
    THEN <<c.r, c.g, c.b, c.a>>
    ELSE <<c.r, c.g, c.b, RoundDiv(c.a * 255, 1000)>>

\* ------------------------------------------------------- render strategies

\* [styles.container, {width, height, backgroundColor, borderRadius}, style]:
\* a later entry wins
Container(p, backgroundColor) ==
  [width |-> p.width, height |-> p.height, backgroundColor |-> backgroundColor,
   borderRadius |->
     IF p.style.set THEN p.style.borderRadius ELSE p.borderRadius]

\* a variant of ContainerWidth that reads the number out of a string width
ContainerWidth_ParsesString(width) == 10 * width.v

\* typeof width === "number" ? width : 100, in tenths
ContainerWidth(width) == 10 * (IF width.num THEN width.v ELSE 100)

\* typeof height === "number" ? height : 20, in tenths
ContainerHeight(height) == 10 * (IF height.num THEN height.v ELSE 20)

\* a variant of Shimmer with a bar of 20% of the container
Shimmer_Fifth(containerSize) == (containerSize * 2) \div 10

\* 30% of the container, in tenths
Shimmer(containerSize) == (containerSize * 3) \div 10

RenderLinear(p, value) ==
  LET containerWidth == ContainerWidth(p.width)
      shimmerWidth == Shimmer(containerWidth)
  IN  [kind |-> "linear", shown |-> value,
       container |-> Container(p, p.backgroundColor),
       overlay |->
         [translateX |-> Interpolate2(value, -shimmerWidth, containerWidth),
          outputRange |-> <<-shimmerWidth, containerWidth>>,
          width |-> shimmerWidth, backgroundColor |-> p.animationColor]]

RenderRadial(p, value) ==
  [kind |-> "radial", shown |-> value,
   container |-> Container(p, p.backgroundColor),
   overlay |->
     [scale |-> Interpolate3(value, 500, 1500, 500),
      opacity |-> Interpolate3(value, 300, 1000, 300),
      backgroundColor |-> p.animationColor]]

RenderDirectional(p, value) ==
  LET containerHeight == ContainerHeight(p.height)
      shimmerHeight == Shimmer(containerHeight)
  IN  [kind |-> "directional", shown |-> value,
       container |-> Container(p, p.backgroundColor),
       overlay |->
         [translateY |-> Interpolate2(value, -shimmerHeight, containerHeight),
          outputRange |-> <<-shimmerHeight, containerHeight>>,
          height |-> shimmerHeight, backgroundColor |-> p.animationColor]]

RenderReverse(p, value) ==
  LET containerWidth == ContainerWidth(p.width)
      shimmerWidth == Shimmer(containerWidth)
  IN  [kind |-> "reverse", shown |-> value,
       container |-> Container(p, p.backgroundColor),
       overlay |->
         [translateX |-> Interpolate2(value, containerWidth, -shimmerWidth),
          outputRange |-> <<containerWidth, -shimmerWidth>>,
          width |-> shimmerWidth, backgroundColor |-> p.animationColor]]

\* a variant of RenderPulse filled with backgroundColor
RenderPulse_BaseFill(p, value) ==
  [kind |-> "pulse", shown |-> value,
   container |-> Container(p, p.backgroundColor),
   opacity |-> Interpolate3(value, 300, 1000, 300)]

RenderPulse(p, value) ==
  [kind |-> "pulse", shown |-> value,
   container |-> Container(p, p.animationColor),
   opacity |-> Interpolate3(value, 300, 1000, 300)]

RenderFade(p, value) ==
  [kind |-> "fade", shown |-> value,
   container |->
     Container(p, InterpolateColor(value, p.backgroundColor, p.animationColor,
                                   p.backgroundColor))]

\* no animated node: the tree does not depend on the value
RenderSkeleton(p, value) ==
  [kind |-> "skeleton", container |-> Container(p, p.backgroundColor)]

\* a variant of Dispatch whose default branch renders the static box
Dispatch_DefaultSkeleton(animationStyle, p, value) ==
  CASE animationStyle = "linear" -> RenderLinear(p, value)
    [] animationStyle = "radial" -> RenderRadial(p, value)
    [] animationStyle = "directional" -> RenderDirectional(p, value)
    [] animationStyle = "reverse" -> RenderReverse(p, value)
    [] animationStyle = "pulse" -> RenderPulse(p, value)
    [] animationStyle = "fade" -> RenderFade(p, value)
    [] OTHER -> RenderSkeleton(p, value)

\* the switch on animationStyle
Dispatch(animationStyle, p, value) ==
  CASE animationStyle = "linear" -> RenderLinear(p, value)
    [] animationStyle = "radial" -> RenderRadial(p, value)
    [] animationStyle = "directional" -> RenderDirectional(p, value)
    [] animationStyle = "reverse" -> RenderReverse(p, value)
    [] animationStyle = "pulse" -> RenderPulse(p, value)
    [] animationStyle = "fade" -> RenderFade(p, value)
    [] animationStyle = "skeleton" -> RenderSkeleton(p, value)
    [] OTHER -> RenderLinear(p, value)

\* one render pass of the component
Render(p, value) == Dispatch(AnimationStyle(p), p, value)

NoView == [kind |-> "none"]

\* ------------------------------------------------------------------ actions

FirstProps ==
  [width |-> Number(200), height |-> Number(40),
   backgroundColor |-> Hex(132, 133, 133, 44),
   animationColor |-> Hex(131, 132, 132, 120), animationStyle |-> "undefined",
   borderRadius |-> 4, style |-> NoStyle]

Init ==
  /\ mounted = FALSE
  /\ props = FirstProps
  /\ deps = "none"
  /\ animatedValue = 0
  /\ animation = NoAnimation
  /\ elapsed = 0
  /\ view = NoView
  /\ lastOp = "init"

\* first render of a new instance: useRef(new Animated.Value(0)), the render
\* pass, then the effect
Mount(p) ==
  /\ ~mounted
  /\ ~animation.active
  /\ mounted' = TRUE
  /\ props' = p
  /\ deps' = AnimationStyle(p)
  /\ animatedValue' = 0
  /\ animation' = EffectBody(AnimationStyle(p))
  /\ elapsed' = 0
  /\ view' = Render(p, 0)
  /\ lastOp' = "mount"

\* a later render: the render pass, then, when the dependencies changed, the
\* cleanup of the last effect run and the effect again.  Animated.loop resets
\* the value to its starting value, 0, before each iteration, the first included.
Rerender(p) ==
  /\ mounted
  /\ props' = p
  /\ IF DepsChanged(deps, AnimationStyle(p))
       THEN LET c == RunCleanup(animation, animatedValue)
                a == EffectBody(AnimationStyle(p))
            IN  /\ deps' = AnimationStyle(p)
                /\ animation' = IF a.active THEN a ELSE c.animation
                /\ animatedValue' = IF a.active THEN 0 ELSE c.value
                /\ elapsed' = IF a.active THEN 0 ELSE elapsed
                /\ view' = Render(p, c.value)
       ELSE /\ UNCHANGED <<deps, animation, animatedValue, elapsed>>
            /\ view' = Render(p, animatedValue)
  /\ lastOp' =
       IF AnimationStyle(p) = AnimationStyle(props) THEN "rerender" ELSE "restyle"
  /\ UNCHANGED mounted

Unmount ==
  /\ mounted
  /\ LET c == RunCleanup(animation, animatedValue)
     IN  /\ animation' = c.animation
         /\ animatedValue' = c.value
  /\ mounted' = FALSE
  /\ view' = NoView
  /\ lastOp' = "unmount"
  /\ UNCHANGED <<props, deps, elapsed>>

\* one frame of the running timing, dt after the last: the value is set from
\* the eased elapsed fraction and flushed to the animated nodes; at the end of
\* the duration it is set to toValue, 1, and the loop resets it and starts the
\* next iteration
Tick(dt) ==
  /\ animation.active
  /\ LET t == elapsed + dt
         finished == t >= animation.duration
         shown == IF finished THEN Scale
                  ELSE Eased(animation.easing, t, animation.duration)
     IN  /\ animatedValue' = IF finished THEN 0 ELSE shown
         /\ elapsed' = IF finished THEN 0 ELSE t
         /\ view' = IF mounted THEN Render(props, shown) ELSE view
  /\ lastOp' = "tick"
  /\ UNCHANGED <<mounted, props, deps, animation>>

Next ==
  \/ \E p \in PropsInputs : Mount(p)
  \/ \E p \in PropsInputs : Rerender(p)
  \/ Unmount
  \/ \E dt \in FrameIntervals : Tick(dt)

Spec == Init /\ [][Next]_vars

\* ---------------------------------------------------------------- properties

IsSkeleton(p) == AnimationStyle(p) = "skeleton"

\* C1: while animationStyle is "skeleton" no loop is running, the value is not
\* stepped and, the props unchanged, the tree on screen does not change; also
\* after a change from an animated style.
C1_SkeletonStatic ==
  [][/\ (mounted' /\ IsSkeleton(props')) => ~animation'.active
     /\ (mounted /\ mounted' /\ IsSkeleton(props) /\ IsSkeleton(props'))
          => /\ animatedValue' = animatedValue
             /\ props' = props => view' = view]_vars

\* skeleton, reached from a pulse or fade loop that had ticked
C1_Witness ==
  /\ mounted /\ IsSkeleton(props) /\ lastOp = "restyle"
  /\ animation.duration = 1500 /\ elapsed > 0
  /\ view.kind = "skeleton"

\* C2: unmounting stops the loop and resets the value to 0, and while the
\* instance is unmounted the value never changes.
C2_UnmountStops ==
  [][/\ (mounted /\ ~mounted') => (~animation'.active /\ animatedValue' = 0)
     /\ ~mounted => (animatedValue' = animatedValue /\ ~animation.active)]_vars

\* unmounted in the middle of an iteration of a loop
C2_Witness ==
  /\ ~mounted /\ lastOp = "unmount"
  /\ animation.duration > 0 /\ elapsed > 0 /\ animatedValue = 0

\* C3: a change of animationStyle while mounted stops the old loop and resets
\* the value to 0; unless the new style is skeleton a new loop starts from 0
\* with the new style's duration and easing, and the next frame is a frame of
\* the new loop.
C3_StyleChangeRestarts ==
  [][(mounted /\ mounted' /\ AnimationStyle(props') # AnimationStyle(props))
       => /\ animatedValue' = 0
          /\ IF IsSkeleton(props')
               THEN ~animation'.active
               ELSE /\ animation' =
                         [active |-> TRUE,
                          duration |->
                            IF AnimationStyle(props') \in {"pulse", "fade"}
                              THEN 1500 ELSE 1200,
                          easing |->
                            IF AnimationStyle(props') = "pulse"
                              THEN "ease" ELSE "linear"]
                    /\ elapsed' = 0
                    /\ view'.shown = 0]_vars

\* a new loop right after a change of style
C3_Witness ==
  /\ mounted /\ lastOp = "restyle" /\ animation.active
  /\ animation.duration = 1500 /\ animation.easing = "ease"
  /\ elapsed = 0 /\ animatedValue = 0

LinearTiming == [active |-> TRUE, duration |-> 1200, easing |-> "linear"]

\* C4: with animationStyle omitted the placeholder is rendered by the linear
\* strategy and its loop has the linear timing.
C4_DefaultIsLinear ==
  (mounted /\ props.animationStyle = "undefined")
    => (view.kind = "linear" /\ animation = LinearTiming)

SameColor(c, d) == ProcessColor(c) = ProcessColor(d)

\* the container of the tree has the width, height and borderRadius of p and
\* the colour fill
ContainerMatches(p, fill) ==
  /\ view.container.width = p.width
  /\ view.container.height = p.height
  /\ view.container.borderRadius = p.borderRadius
  /\ SameColor(view.container.backgroundColor, fill)

JustMounted ==
  /\ lastOp = "mount" /\ props.animationStyle \in KnownStyles
  /\ ~props.style.set

\* C5 as stated: for each of the seven styles and no style override, the
\* container rendered on mount has the requested width, height,
\* backgroundColor and borderRadius.
C5_ContainerAsRequested ==
  JustMounted => ContainerMatches(props, props.backgroundColor)

\* C5 amended: the same, except that the container of pulse is filled with
\* animationColor.
C5_ContainerAsRequestedButPulse ==
  JustMounted =>
    ContainerMatches(props,
                     IF props.animationStyle = "pulse"
                       THEN props.animationColor ELSE props.backgroundColor)

\* a pulse placeholder right after mount
C5_Witness ==
  /\ JustMounted /\ props.animationStyle = "pulse" /\ view.kind = "pulse"
  /\ view.shown = 0
  /\ ~SameColor(props.animationColor, props.backgroundColor)

\* the timing the policy gives the current style, the easing told by the
\* name of the toolkit's curve
TimingPolicy ==
  animation.active =>
    /\ mounted
    /\ animation.duration =
         IF AnimationStyle(props) \in {"pulse", "fade"} THEN 1500 ELSE 1200
    /\ animation.easing =
         IF AnimationStyle(props) = "pulse" THEN "ease" ELSE "linear"

\* a frame of the running loop: within an iteration the value does not
\* decrease and stays below 1; the frame that ends the iteration shows 1 and
\* restarts from 0
LoopIteration ==
  (lastOp' = "tick") =>
    IF elapsed' > elapsed
      THEN /\ animatedValue' >= animatedValue /\ animatedValue' < Scale
           /\ view'.shown = animatedValue'
      ELSE /\ view'.shown = Scale /\ animatedValue' = 0 /\ elapsed' = 0

\* an ease-in-out curve is symmetric about the middle of the iteration:
\* f(t) + f(1 - t) = 1
InOutShape ==
  (animation.active /\ animation.easing # "linear" /\ elapsed > 0)
    => animatedValue
         + Eased(animation.easing, animation.duration - elapsed,
                 animation.duration) = Scale

\* C6 as stated: a running loop has the duration and easing of the current
\* style, the easing of pulse being ease-in-out, and each iteration drives the
\* value from 0 to 1 and restarts from 0.
C6_TimingEaseInOut == [][TimingPolicy' /\ LoopIteration /\ InOutShape']_vars

\* the value of a linear loop is the elapsed fraction of the duration; the
\* value of a pulse loop lies below it (the curve Easing.ease accelerates from
\* rest)
EaseShape ==
  (animation.active /\ elapsed > 0)
    => IF animation.easing = "linear"
         THEN animatedValue = (elapsed * Scale) \div animation.duration
         ELSE animatedValue * animation.duration < elapsed * Scale

\* C6 amended: a running loop has the duration of the current style (1500 for
\* pulse and fade, 1200 otherwise) and its easing (Easing.ease, which only
\* eases in, for pulse; linear otherwise), and each iteration drives the value
\* from 0 to 1 and restarts from 0.
C6_TimingPolicy == [][TimingPolicy' /\ LoopIteration /\ EaseShape']_vars

\* a pulse loop in the middle of an iteration
C6_Witness ==
  /\ mounted /\ AnimationStyle(props) = "pulse" /\ animation.active
  /\ animation.duration = 1500 /\ elapsed = 900 /\ lastOp = "tick"
  /\ animatedValue > 0 /\ animatedValue < Scale

\* C7: for a numeric width w the linear bar is 0.3*w wide and stands at
\* -(0.3*w) at progress 0 and at w at progress 1 (lengths in tenths, positions
\* times Scale); reverse at progress p stands where linear stands at 1 - p,
\* that is at w at progress 0 and at -(0.3*w) at progress 1.
C7_LinearReverseMirror ==
  (view.kind \in {"linear", "reverse"} /\ props.width.num) =>
    LET w == props.width.v
        x == view.overlay.translateX
        p == view.shown
    IN  /\ view.overlay.width = 3 * w
        /\ view.kind = "linear" =>
             /\ p = 0 => x = -(3 * w) * Scale
             /\ p = Scale => x = (10 * w) * Scale
        /\ view.kind = "reverse" =>
             /\ x = RenderLinear(props, Scale - p).overlay.translateX
             /\ p = 0 => x = (10 * w) * Scale
             /\ p = Scale => x = -(3 * w) * Scale

\* width 200, linear, at the end of an iteration: the bar stands at 200
C7_Witness ==
  /\ view.kind = "linear" /\ props.width = Number(200)
  /\ view.shown = Scale /\ lastOp = "tick"
  /\ view.overlay.width = 600
  /\ view.overlay.translateX = 2000 * Scale

\* the bar size and the translation range computed from size, in tenths
BarFrom(size) == [bar |-> 3 * size, lo |-> -(3 * size), hi |-> 10 * size]

\* C8: with a string width (linear, reverse) or height (directional) the bar
\* size and the translation range come from the baseline (100, 20) alone and
\* the container keeps the caller's width and height; with a numeric value
\* they come from that value.
C8_BaselineForStrings ==
  /\ view.kind \in {"linear", "reverse"} =>
       LET b == BarFrom(IF props.width.num THEN props.width.v ELSE 100)
       IN  /\ view.overlay.width = b.bar
           /\ view.overlay.outputRange =
                IF view.kind = "linear" THEN <<b.lo, b.hi>> ELSE <<b.hi, b.lo>>
           /\ view.container.width = props.width
           /\ view.container.height = props.height
  /\ view.kind = "directional" =>
       LET b == BarFrom(IF props.height.num THEN props.height.v ELSE 20)
       IN  /\ view.overlay.height = b.bar
           /\ view.overlay.outputRange = <<b.lo, b.hi>>
           /\ view.container.width = props.width
           /\ view.container.height = props.height

\* a reverse placeholder of width "80%" in the middle of an iteration
C8_Witness ==
  /\ view.kind = "reverse" /\ props.width = Percent(80)
  /\ view.overlay.width = 300 /\ view.container.width = Percent(80)
  /\ view.shown > 0 /\ view.shown < Scale

UnknownStyle(p) == p.animationStyle \notin KnownStyles \cup {"undefined"}

\* C9: with a tag outside the seven the placeholder is what it is with
\* "linear": the same tree and a loop with the linear timing.
C9_UnknownAsLinear ==
  (mounted /\ UnknownStyle(props)) =>
    /\ view.kind = "linear"
    /\ view = Render([props EXCEPT !.animationStyle = "linear"], view.shown)
    /\ animation = LinearTiming

\* an unknown tag, its loop in the middle of an iteration
C9_Witness ==
  /\ mounted /\ UnknownStyle(props) /\ lastOp = "tick"
  /\ elapsed > 0 /\ animatedValue > 0

\* C10: a render of a mounted placeholder with animationStyle unchanged
\* leaves the loop, its elapsed time and the value as they are.
C10_RerenderKeepsLoop ==
  [][(mounted /\ mounted' /\ lastOp' = "rerender")
       => UNCHANGED <<animation, animatedValue, elapsed>>]_vars

\* a render with other props changed in the middle of an iteration
C10_Witness ==
  /\ mounted /\ lastOp = "rerender" /\ animation.active
  /\ elapsed > 0 /\ animatedValue > 0
  /\ view.shown = animatedValue /\ view.container.width # FirstProps.width

====
